---- MODULE Spec2Model ----
\* State-machine model of landing/script.js: the mobile navigation, the scroll
\* listeners, the simulated login (two chained timers, localStorage write,
\* redirect), the notification system with its auto-dismiss timers, the
\* debounce wrapper, and the cloud-init shell script that ends the file.
\* Time is discrete: one Tick is Quantum milliseconds, the greatest common
\* divisor of the script's timer delays, so every delay is a whole number of
\* ticks and timers come due in the order the browser's timer queue gives.
EXTENDS Integers, Sequences, FiniteSets, TLC

VARIABLES
    navMenuActive,      \* navMenu.classList contains 'active'
    hamburgerActive,    \* hamburger.classList contains 'active'
    clicks,             \* history: the menu before each of the last two hamburger clicks in a row
    scrollY,            \* window.scrollY
    scrollToTopButton,  \* module-level reference: Undefined or the button element
    buttons,            \* the scroll-to-top button elements appended to document.body
    headerBackground,   \* header.style.background
    created,            \* every notification element created so far, in order
    attached,           \* the notification elements attached to document.body
    notificationStyles, \* the #notification-styles element is in document.head
    timers,             \* pending setTimeout callbacks, in registration order
    localStorage,       \* the script's writes to localStorage: key -> value
    location,           \* window.location.href
    loaded,             \* the document is still the active document
    submitted,          \* history: one record per submit event of the login form
    debounceTimers,     \* pending setTimeout callbacks of the debounced function
    timeout,            \* debounce's closure variable: the id of the last timer it started
    calls,              \* history: number of calls of the debounced function
    invocations,        \* history: the arguments of each run of the wrapped function
    cancelled,          \* history: the calls whose timer clearTimeout removed
    pc,                 \* shell script: the line of the next command
    exitStatus,         \* shell script: Running, or the status the shell exited with
    ran,                \* shell script, history: the commands run and their statuses
    files,              \* shell script: the paths its commands have created
    serviceStarted      \* shell script: systemctl start has succeeded

vars == <<navMenuActive, hamburgerActive, clicks, scrollY, scrollToTopButton,
          headerBackground, created, attached, notificationStyles, timers,
          localStorage, location, loaded, submitted, buttons,
          debounceTimers, timeout, calls, invocations, cancelled,
          pc, exitStatus, ran, files, serviceStarted>>

menuVars   == <<navMenuActive, hamburgerActive, clicks>>
scrollVars == <<scrollY, scrollToTopButton, buttons, headerBackground>>
notifVars  == <<created, attached, notificationStyles>>
loginVars  == <<localStorage, location, submitted>>
debounceVars  == <<debounceTimers, timeout, calls, invocations, cancelled>>
provisionVars == <<pc, exitStatus, ran, files, serviceStarted>>

----------------------------------------------------------------------------
\* Bounds of the model.

\* Submit events dispatched to the login form in one run.
MaxSubmits == 2

\* Values the client-id input can hold at submit time, as sequences of
\* characters: empty, plain, and one with characters encodeURIComponent escapes.
Ids == { <<>>, <<"a">>, <<"&", " ">> }

\* Scroll offsets the window can be at: the top, the button's threshold, and
\* one pixel past it.
ScrollPositions == {0, 300, 301}

----------------------------------------------------------------------------
\* Program constants (milliseconds).

LoginDelay       == 500
RedirectDelay    == 500
AutoDismissDelay == 5000
FadeOutDelay     == 300
HeaderThreshold  == 100
ButtonThreshold  == 300

StorageKey   == "cloud25f-user-id"
RedirectBase == "http://alb-cloud25f-823380760.us-east-2.elb.amazonaws.com"
LandingPage  == [base |-> "landing", query |-> <<>>]
Undefined    == [className |-> "undefined", visible |-> FALSE, element |-> 0]

RECURSIVE GCD(_, _)
GCD(a, b) == IF b = 0 THEN a ELSE GCD(b, a % b)

\* Length of one Tick in milliseconds.
Quantum == GCD(GCD(LoginDelay, RedirectDelay), GCD(AutoDismissDelay, FadeOutDelay))

----------------------------------------------------------------------------
\* Pure functions.

\* Characters encodeURIComponent leaves alone (the ones of the model's alphabet).
Unreserved == {"a", "b", "0", "-", "_", ".", "!", "~", "*", "'", "(", ")"}

HexDigits == <<"0", "1", "2", "3", "4", "5", "6", "7", "8", "9",
               "A", "B", "C", "D", "E", "F">>

\* UTF-8 code of the escaped characters of the model's alphabet.
CharCode(c) ==
    CASE c = " " -> 32
      [] c = "%" -> 37
      [] c = "&" -> 38
      [] c = "=" -> 61
      [] c = "?" -> 63

EncodeChar(c) ==
    IF c \in Unreserved
    THEN <<c>>
    ELSE <<"%", HexDigits[(CharCode(c) \div 16) + 1], HexDigits[(CharCode(c) % 16) + 1]>>

RECURSIVE encodeURIComponent(_)
encodeURIComponent(s) ==
    IF s = <<>> THEN <<>>
    ELSE EncodeChar(Head(s)) \o encodeURIComponent(Tail(s))

RedirectUrl(id) ==
    [base |-> RedirectBase, query |-> <<"?id=">> \o encodeURIComponent(id)]

getNotificationIcon(type) ==
    CASE type = "success" -> "check"
      [] type = "error"   -> "cross"
      [] type = "info"    -> "info"
      [] OTHER            -> "info"

----------------------------------------------------------------------------
\* Timers (setTimeout). A timer record keeps the variables its callback closes
\* over: the identifier and login index for the login timers, the notification
\* element for the notification timers.

Timer(kind, delay, n, s, id) ==
    [kind |-> kind, delay |-> delay, rem |-> delay, n |-> n, s |-> s, id |-> id]

Range(seq) == {seq[k] : k \in 1..Len(seq)}

RemoveAt(seq, i) ==
    [j \in 1..(Len(seq) - 1) |-> IF j < i THEN seq[j] ELSE seq[j + 1]]

\* The browser runs due timers in deadline order; of two timers with the same
\* delay the one registered first has the earlier deadline.
Due(i) ==
    /\ i \in 1..Len(timers)
    /\ timers[i].rem = 0
    /\ \A j \in 1..(i - 1) : ~(timers[j].rem = 0 /\ timers[j].delay = timers[i].delay)

----------------------------------------------------------------------------
\* Mobile navigation.

Menu == [nav |-> navMenuActive, ham |-> hamburgerActive]

ClickTargets == {"hamburger", "nav-link", "nav-menu", "outside"}

\* Mutant: classList.add in place of classList.toggle.
HamburgerListenerAdds(m) == [nav |-> TRUE, ham |-> TRUE]

HamburgerListener(m) == [nav |-> ~m.nav, ham |-> ~m.ham]

\* Mutant: a nav link removes 'active' from the nav menu only.
NavLinkListenerNavOnly(m) == [nav |-> FALSE, ham |-> m.ham]

NavLinkListener(m) == [nav |-> FALSE, ham |-> FALSE]

HamburgerContains(target) == target = "hamburger"
NavMenuContains(target) == target \in {"nav-link", "nav-menu"}

\* Mutant: the outside click toggles the classes instead of removing them.
DocumentClickListenerToggles(m, target) ==
    IF ~HamburgerContains(target) /\ ~NavMenuContains(target)
    THEN [nav |-> ~m.nav, ham |-> ~m.ham]
    ELSE m

DocumentClickListener(m, target) ==
    IF ~HamburgerContains(target) /\ ~NavMenuContains(target)
    THEN [nav |-> FALSE, ham |-> FALSE]
    ELSE m

\* A click runs the target's own listener, then bubbles to the document's.
Dispatch(m, target) ==
    DocumentClickListener(
        CASE target = "hamburger" -> HamburgerListener(m)
          [] target = "nav-link"  -> NavLinkListener(m)
          [] OTHER                -> m,
        target)

\* History of the current run of consecutive hamburger clicks: the menu state
\* before each of the last two of them.
ClicksAfter(target) ==
    IF target = "hamburger"
    THEN IF Len(clicks) < 2 THEN Append(clicks, Menu) ELSE <<clicks[2], Menu>>
    ELSE <<>>

Click(target) ==
    /\ loaded
    /\ navMenuActive' = Dispatch(Menu, target).nav
    /\ hamburgerActive' = Dispatch(Menu, target).ham
    /\ clicks' = ClicksAfter(target)
    /\ UNCHANGED <<scrollVars, notifVars, timers, loginVars, loaded,
                 debounceVars, provisionVars>>

----------------------------------------------------------------------------
\* Scroll listeners.

HeaderBackgroundAt(y) ==
    IF y > HeaderThreshold THEN "hsl(222, 84%, 5%, 0.95)" ELSE "hsl(222, 84%, 5%, 0.9)"

\* The element createScrollToTopButton assigns to the module-level reference:
\* the k-th button element the document has been given.
createScrollToTopButton(k) ==
    [className |-> "scroll-to-top", visible |-> FALSE, element |-> k]

\* Mutant: the button is created on every scroll event.
ButtonsAfterScrollAlways(button, elements) ==
    Append(elements, [element |-> Len(elements) + 1, clickListeners |-> 1])

\* The elements in document.body after the listener ran: createScrollToTopButton
\* adds one click listener to the new element and appends it.
ButtonsAfterScroll(button, elements) ==
    IF button = Undefined
    THEN Append(elements, [element |-> Len(elements) + 1, clickListeners |-> 1])
    ELSE elements

\* Mutant: >= in place of > at the threshold.
ButtonAfterScrollAtThreshold(button, y) ==
    LET b == IF button = Undefined THEN createScrollToTopButton(Len(buttons) + 1) ELSE button
    IN  IF y >= ButtonThreshold
        THEN [b EXCEPT !.visible = TRUE]
        ELSE [b EXCEPT !.visible = FALSE]

ButtonAfterScroll(button, y) ==
    LET b == IF button = Undefined THEN createScrollToTopButton(Len(buttons) + 1) ELSE button
    IN  IF y > ButtonThreshold
        THEN [b EXCEPT !.visible = TRUE]
        ELSE [b EXCEPT !.visible = FALSE]

Scroll(y) ==
    /\ loaded
    /\ y # scrollY
    /\ scrollY' = y
    /\ headerBackground' = HeaderBackgroundAt(y)
    /\ scrollToTopButton' = ButtonAfterScroll(scrollToTopButton, y)
    /\ buttons' = ButtonsAfterScroll(scrollToTopButton, buttons)
    /\ UNCHANGED <<menuVars, notifVars, timers, loginVars, loaded,
                 debounceVars, provisionVars>>

----------------------------------------------------------------------------
\* Notification system.

\* Mutant: the existing notifications are left on the page.
RemoveExistingKeeps(existing) == existing

\* querySelectorAll('.notification') and remove() on each.
RemoveExisting(existing) == {}

\* The state showNotification leaves: the new element is created[Len(created)],
\* and its auto-dismiss timer is registered after the timers in `pending`.
showNotification(message, type, pending) ==
    LET n == Len(created) + 1
    IN  [created  |-> Append(created, [type |-> type, message |-> message,
                                       icon |-> getNotificationIcon(type),
                                       animation |-> "slideIn"]),
         attached |-> RemoveExisting(attached) \cup {n},
         styles   |-> TRUE,
         timers   |-> Append(pending, Timer("autoDismiss", AutoDismissDelay, n, 0, <<>>))]

\* The notification's close button: this.parentElement.parentElement.remove().
\* The click bubbles to the document listener, its target outside the menu.
CloseNotification(n) ==
    /\ loaded
    /\ n \in attached
    /\ attached' = attached \ {n}
    /\ navMenuActive' = Dispatch(Menu, "outside").nav
    /\ hamburgerActive' = Dispatch(Menu, "outside").ham
    /\ clicks' = ClicksAfter("outside")
    /\ UNCHANGED <<scrollVars, created, notificationStyles, timers, loginVars, loaded,
                 debounceVars, provisionVars>>

\* Mutant: the follow-up timer is never started.
FadeOutTimersNone(n) == <<>>

\* The timer the 5-second callback registers.
FadeOutTimers(n) == <<Timer("fadeOut", FadeOutDelay, n, 0, <<>>)>>

\* Mutant: the callback looks up whichever notification is on the page.
AutoDismissTimerCurrent(i) ==
    /\ loaded
    /\ Due(i)
    /\ timers[i].kind = "autoDismiss"
    /\ LET rest == RemoveAt(timers, i)
       IN  IF attached # {}
           THEN LET n == CHOOSE m \in attached : TRUE
                IN  /\ created' = [created EXCEPT ![n].animation = "slideIn reverse"]
                    /\ timers' = rest \o FadeOutTimers(n)
           ELSE /\ created' = created
                /\ timers' = rest
    /\ UNCHANGED <<menuVars, scrollVars, attached, notificationStyles, loginVars, loaded,
                 debounceVars, provisionVars>>

\* The 5-second callback: starts the fade-out only if the element is attached.
AutoDismissTimer(i) ==
    /\ loaded
    /\ Due(i)
    /\ timers[i].kind = "autoDismiss"
    /\ LET n == timers[i].n
           rest == RemoveAt(timers, i)
       IN  IF n \in attached
           THEN /\ created' = [created EXCEPT ![n].animation = "slideIn reverse"]
                /\ timers' = rest \o FadeOutTimers(n)
           ELSE /\ created' = created
                /\ timers' = rest
    /\ UNCHANGED <<menuVars, scrollVars, attached, notificationStyles, loginVars, loaded,
                 debounceVars, provisionVars>>

\* The 300 ms follow-up: notification.remove().
FadeOutTimer(i) ==
    /\ loaded
    /\ Due(i)
    /\ timers[i].kind = "fadeOut"
    /\ attached' = attached \ {timers[i].n}
    /\ timers' = RemoveAt(timers, i)
    /\ UNCHANGED <<menuVars, scrollVars, created, notificationStyles, loginVars, loaded,
                 debounceVars, provisionVars>>

----------------------------------------------------------------------------
\* Login form.

\* Mutant: the value is stored under another key.
setItemOtherKey(store, key, value) ==
    [k \in (DOMAIN store) \cup {"user-id"} |-> IF k = "user-id" THEN value ELSE store[k]]

setItem(store, key, value) ==
    [k \in (DOMAIN store) \cup {key} |-> IF k = key THEN value ELSE store[k]]

\* Mutant: the validation never rejects.
IsEmptyNever(id) == FALSE

\* JavaScript's !id for a string: true exactly for the empty string.
IsEmpty(id) == id = <<>>

\* The timers the submit handler registers itself, and the one the first
\* timer's callback registers: the second timer is nested in the first.
\* Mutant: the redirect timer is started beside the first, not nested in it.
SubmitTimersUnchained(s, id) ==
    <<Timer("loginFirst", LoginDelay, 0, s, id),
      Timer("loginSecond", LoginDelay + RedirectDelay, 0, s, id)>>

SubmitTimers(s, id) == <<Timer("loginFirst", LoginDelay, 0, s, id)>>

FirstCallbackTimers(s, id) == <<Timer("loginSecond", RedirectDelay, 0, s, id)>>

\* Mutant: a new submit first cancels the login timers still pending.
SubmitCancelsPending(id) ==
    /\ loaded
    /\ Len(submitted) < MaxSubmits
    /\ submitted' = Append(submitted, [id |-> id, wrote |-> FALSE, redirected |-> FALSE])
    /\ LET kept == SelectSeq(timers, LAMBDA t : t.kind \in {"autoDismiss", "fadeOut"})
       IN  IF IsEmpty(id)
           THEN LET r == showNotification("Por favor, preencha todos os campos.", "error", kept)
                IN  /\ created' = r.created
                    /\ attached' = r.attached
                    /\ notificationStyles' = r.styles
                    /\ timers' = r.timers
           ELSE LET r == showNotification("Processando login...", "info", kept)
                IN  /\ created' = r.created
                    /\ attached' = r.attached
                    /\ notificationStyles' = r.styles
                    /\ timers' = r.timers \o SubmitTimers(Len(submitted) + 1, id)
    /\ UNCHANGED <<menuVars, scrollVars, localStorage, location, loaded,
                 debounceVars, provisionVars>>

\* The submit handler, with the input's value at submit time.
Submit(id) ==
    /\ loaded
    /\ Len(submitted) < MaxSubmits
    /\ submitted' = Append(submitted, [id |-> id, wrote |-> FALSE, redirected |-> FALSE])
    /\ IF IsEmpty(id)
       THEN LET r == showNotification("Por favor, preencha todos os campos.", "error", timers)
            IN  /\ created' = r.created
                /\ attached' = r.attached
                /\ notificationStyles' = r.styles
                /\ timers' = r.timers
       ELSE LET r == showNotification("Processando login...", "info", timers)
            IN  /\ created' = r.created
                /\ attached' = r.attached
                /\ notificationStyles' = r.styles
                /\ timers' = r.timers \o SubmitTimers(Len(submitted) + 1, id)
    /\ UNCHANGED <<menuVars, scrollVars, localStorage, location, loaded,
                 debounceVars, provisionVars>>

\* The first login timer: success notification, storage write, second timer.
LoginFirstTimer(i) ==
    /\ loaded
    /\ Due(i)
    /\ timers[i].kind = "loginFirst"
    /\ LET id == timers[i].id
           s == timers[i].s
           r == showNotification("Login realizado com sucesso! Redirecionando...",
                                 "success", RemoveAt(timers, i))
       IN  /\ created' = r.created
           /\ attached' = r.attached
           /\ notificationStyles' = r.styles
           /\ localStorage' = setItem(localStorage, StorageKey, id)
           /\ timers' = r.timers \o FirstCallbackTimers(s, id)
           /\ submitted' = [submitted EXCEPT ![s].wrote = TRUE]
    /\ UNCHANGED <<menuVars, scrollVars, location, loaded,
                 debounceVars, provisionVars>>

\* The second login timer: the redirect.
LoginSecondTimer(i) ==
    /\ loaded
    /\ Due(i)
    /\ timers[i].kind = "loginSecond"
    /\ location' = RedirectUrl(timers[i].id)
    /\ timers' = RemoveAt(timers, i)
    /\ submitted' = [submitted EXCEPT ![timers[i].s].redirected = TRUE]
    /\ UNCHANGED <<menuVars, scrollVars, notifVars, localStorage, loaded,
                 debounceVars, provisionVars>>

----------------------------------------------------------------------------
\* Time and the page's life.

\* Time passes only when no timer is due.
Tick ==
    /\ loaded
    /\ timers # <<>>
    /\ \A i \in 1..Len(timers) : timers[i].rem > 0
    /\ timers' = [i \in 1..Len(timers) |-> [timers[i] EXCEPT !.rem = @ - Quantum]]
    /\ UNCHANGED <<menuVars, scrollVars, notifVars, loginVars, loaded,
                 debounceVars, provisionVars>>

\* The navigation started by the assignment to window.location.href commits:
\* the document is discarded, with its elements and its pending timers.
\* localStorage outlives the document.
Unload ==
    /\ loaded
    /\ location # LandingPage
    /\ loaded' = FALSE
    /\ timers' = <<>>
    /\ attached' = {}
    /\ UNCHANGED <<menuVars, scrollVars, created, notificationStyles, loginVars,
                 debounceVars, provisionVars>>

----------------------------------------------------------------------------
\* debounce(func, wait), applied to the scroll listener debouncedScroll. The
\* wrapped function of the script is empty, so its runs are recorded in the
\* history variable invocations; the argument of the k-th call is the k-th
\* scroll event, written k. These timers have their own clock, since the wait
\* is shorter than every other delay of the script.

\* Calls of the debounced function in one run.
MaxCalls == 5

DebounceWait == 10

\* Length of one DebounceTick in milliseconds: a call can come before, or at,
\* the moment the pending timer expires.
DebounceQuantum == DebounceWait \div 2

\* Mutant: the pending timer is left in place.
clearTimeoutNothing(pending, id) == pending

\* clearTimeout(id): no effect when no pending timer has that id.
clearTimeout(pending, id) == {t \in pending : t.id # id}

\* executedFunction(...args): clearTimeout(timeout); timeout = setTimeout(later, wait).
executedFunction(args) ==
    /\ loaded
    /\ calls < MaxCalls
    /\ args = calls + 1
    /\ LET kept == clearTimeout(debounceTimers, timeout)
           id == calls + 1
       IN  /\ debounceTimers' = kept \cup {[id |-> id, rem |-> DebounceWait, args |-> args]}
           /\ cancelled' = cancelled \cup {t.args : t \in debounceTimers \ kept}
           /\ timeout' = id
    /\ calls' = calls + 1
    /\ UNCHANGED <<menuVars, scrollVars, notifVars, timers, loginVars, loaded,
                   invocations, provisionVars>>

\* later(): clearTimeout(timeout); func(...args), with the args of the call
\* that started this timer.
later(t) ==
    /\ loaded
    /\ t \in debounceTimers
    /\ t.rem = 0
    /\ LET kept == clearTimeout(debounceTimers \ {t}, timeout)
       IN  /\ debounceTimers' = kept
           /\ cancelled' = cancelled \cup {u.args : u \in (debounceTimers \ {t}) \ kept}
    /\ invocations' = Append(invocations, t.args)
    /\ UNCHANGED <<menuVars, scrollVars, notifVars, timers, loginVars, loaded,
                   timeout, calls, provisionVars>>

\* Time passes for the debounce timers only when none of them is due.
DebounceTick ==
    /\ loaded
    /\ debounceTimers # {}
    /\ \A t \in debounceTimers : t.rem > 0
    /\ debounceTimers' = {[t EXCEPT !.rem = @ - DebounceQuantum] : t \in debounceTimers}
    /\ UNCHANGED <<menuVars, scrollVars, notifVars, timers, loginVars, loaded,
                   timeout, calls, invocations, cancelled, provisionVars>>

----------------------------------------------------------------------------
\* The cloud-init shell script, run under set -euo pipefail. Its commands, in
\* the order of the text; pc is an index into Commands, and the script has
\* ended when pc is past its last command or the shell has exited.

Running == -1

\* Exit statuses a command can return: success, and two failures.
ExitStatuses == {0, 1, 127}

\* Exit statuses of the [ -x ... ] tests.
TestStatuses == {0, 1}

Commands ==
    << [cmd |-> "[ -x $(command -v yum) ]",              kind |-> "test",  creates |-> {}],
       [cmd |-> "yum update -y",                         kind |-> "run",   creates |-> {}],
       [cmd |-> "yum install -y python3 git",            kind |-> "run",   creates |-> {}],
       [cmd |-> "[ -x $(command -v apt-get) ]",          kind |-> "test",  creates |-> {}],
       [cmd |-> "apt-get update -y",                     kind |-> "run",   creates |-> {}],
       [cmd |-> "apt-get install -y python3 python3-venv python3-pip git",
                                                         kind |-> "run",   creates |-> {}],
       [cmd |-> "mkdir -p $APP_DIR",                     kind |-> "run",   creates |-> {"/opt/cloud25f"}],
       [cmd |-> "chown $USER:$USER $APP_DIR",            kind |-> "run",   creates |-> {}],
       [cmd |-> "cat > $APP_DIR/app.py",                 kind |-> "write", creates |-> {"/opt/cloud25f/app.py"}],
       [cmd |-> "cat > $APP_DIR/requirements.txt",       kind |-> "write", creates |-> {"/opt/cloud25f/requirements.txt"}],
       [cmd |-> "python3 -m venv $VENV_DIR",             kind |-> "run",   creates |-> {"/opt/cloud25f/venv"}],
       [cmd |-> "pip install --upgrade pip setuptools",  kind |-> "run",   creates |-> {}],
       [cmd |-> "pip install -r requirements.txt",       kind |-> "run",   creates |-> {}],
       [cmd |-> "cat > /etc/systemd/system/cloud25f.service",
                                                         kind |-> "write", creates |-> {"/etc/systemd/system/cloud25f.service"}],
       [cmd |-> "systemctl daemon-reload",               kind |-> "run",   creates |-> {}],
       [cmd |-> "systemctl enable cloud25f.service",     kind |-> "run",   creates |-> {}],
       [cmd |-> "systemctl start cloud25f.service",      kind |-> "run",   creates |-> {}] >>

YumTest     == 1
YumLast     == 3
AptTest     == 4
AfterIf     == 7
StartLine   == Len(Commands)
EndOfScript == Len(Commands) + 1

\* Where control goes after the test of an if or elif: into its branch when
\* the test exits 0, to the next test or past the fi otherwise.
AfterTest(line, status) ==
    IF status = 0 THEN line + 1
    ELSE IF line = YumTest THEN AptTest ELSE AfterIf

\* Mutant: without set -e a failed command is followed by the next one.
AfterCommandNoErrexit(line, status) ==
    IF line = YumLast THEN AfterIf ELSE line + 1

\* Where control goes after a simple command: set -e ends the script when it
\* exits non-zero; the last command of the yum branch is followed by the fi.
AfterCommand(line, status) ==
    IF status # 0 THEN EndOfScript
    ELSE IF line = YumLast THEN AfterIf ELSE line + 1

\* The test of an if or elif: its exit status selects the branch, and set -e
\* does not apply to it.
TestCommand(status) ==
    /\ exitStatus = Running
    /\ pc < EndOfScript
    /\ Commands[pc].kind = "test"
    /\ ran' = Append(ran, [line |-> pc, status |-> status])
    /\ pc' = AfterTest(pc, status)
    /\ UNCHANGED <<menuVars, scrollVars, notifVars, timers, loginVars, loaded,
                   debounceVars, exitStatus, files, serviceStarted>>

\* A simple command. A here-document redirection that fails may have created
\* its file already; a command that succeeds has created what it creates.
RunCommand(status, partial) ==
    /\ exitStatus = Running
    /\ pc < EndOfScript
    /\ Commands[pc].kind \in {"run", "write"}
    /\ partial => (status # 0 /\ Commands[pc].kind = "write")
    /\ ran' = Append(ran, [line |-> pc, status |-> status])
    /\ files' = IF status = 0 \/ partial THEN files \cup Commands[pc].creates ELSE files
    /\ serviceStarted' = (serviceStarted \/ (pc = StartLine /\ status = 0))
    /\ pc' = AfterCommand(pc, status)
    /\ exitStatus' = IF status # 0 /\ AfterCommand(pc, status) = EndOfScript
                     THEN status ELSE exitStatus
    /\ UNCHANGED <<menuVars, scrollVars, notifVars, timers, loginVars, loaded,
                   debounceVars>>

\* The end of the text: the shell exits with the status of the last command.
ExitScript ==
    /\ exitStatus = Running
    /\ pc = EndOfScript
    /\ exitStatus' = 0
    /\ UNCHANGED <<menuVars, scrollVars, notifVars, timers, loginVars, loaded,
                   debounceVars, pc, ran, files, serviceStarted>>

----------------------------------------------------------------------------

Init ==
    /\ navMenuActive = FALSE
    /\ hamburgerActive = FALSE
    /\ clicks = <<>>
    /\ scrollY = 0
    /\ scrollToTopButton = Undefined
    /\ headerBackground = ""
    /\ created = <<>>
    /\ attached = {}
    /\ notificationStyles = FALSE
    /\ timers = <<>>
    /\ localStorage = <<>>
    /\ location = LandingPage
    /\ loaded = TRUE
    /\ submitted = <<>>
    /\ buttons = <<>>
    /\ debounceTimers = {}
    /\ timeout = 0
    /\ calls = 0
    /\ invocations = <<>>
    /\ cancelled = {}
    /\ pc = 1
    /\ exitStatus = Running
    /\ ran = <<>>
    /\ files = {}
    /\ serviceStarted = FALSE

\* The navigation and scroll listeners.
PageNext ==
    \/ \E target \in ClickTargets : Click(target)
    \/ \E y \in ScrollPositions : Scroll(y)

\* The login form, the notifications, their timers, and the page's unload.
LoginNext ==
    \/ \E id \in Ids : Submit(id)
    \/ \E n \in attached : CloseNotification(n)
    \/ \E i \in 1..Len(timers) : AutoDismissTimer(i)
    \/ \E i \in 1..Len(timers) : FadeOutTimer(i)
    \/ \E i \in 1..Len(timers) : LoginFirstTimer(i)
    \/ \E i \in 1..Len(timers) : LoginSecondTimer(i)
    \/ Tick
    \/ Unload

Next == PageNext \/ LoginNext

\* The page: navigation, scroll listeners, login form and notifications.
Spec == Init /\ [][Next]_vars

\* The login form and the notifications alone: the page listeners change none
\* of the variables these actions read.
LoginSpec == Init /\ [][LoginNext]_vars

\* The scheduling the browser guarantees: time passes, and a timer that is due
\* runs. Nothing makes the user act or the navigation commit.
Fairness ==
    /\ WF_vars(Tick)
    /\ WF_vars(\E i \in 1..Len(timers) : AutoDismissTimer(i))
    /\ WF_vars(\E i \in 1..Len(timers) : FadeOutTimer(i))
    /\ WF_vars(\E i \in 1..Len(timers) : LoginFirstTimer(i))
    /\ WF_vars(\E i \in 1..Len(timers) : LoginSecondTimer(i))

FairLoginSpec == LoginSpec /\ Fairness

\* The debounced function, its timers and their clock.
DebounceNext ==
    \/ \E args \in 1..MaxCalls : executedFunction(args)
    \/ \E t \in debounceTimers : later(t)
    \/ DebounceTick

DebounceSpec == Init /\ [][DebounceNext]_vars

\* Time passes, and a due timer runs; nothing makes the page scroll.
FairDebounceSpec ==
    /\ DebounceSpec
    /\ WF_vars(DebounceTick)
    /\ WF_vars(\E t \in debounceTimers : later(t))

\* The shell script: each command returns some exit status.
ProvisionNext ==
    \/ \E status \in TestStatuses : TestCommand(status)
    \/ \E status \in ExitStatuses, partial \in BOOLEAN : RunCommand(status, partial)
    \/ ExitScript

ProvisionSpec == Init /\ [][ProvisionNext]_vars

----------------------------------------------------------------------------
\* Vocabulary of the properties.

Last(seq) == seq[Len(seq)]

Stored == IF StorageKey \in DOMAIN localStorage THEN <<localStorage[StorageKey]>> ELSE <<>>

\* A step that handles a submit event of the login form.
SubmitStep == Len(submitted') = Len(submitted) + 1

\* A step in which showNotification runs.
ShowStep == Len(created') = Len(created) + 1

\* The steps in which the first and the second timer of submit s run.
WriteStep(s) == ~submitted[s].wrote /\ submitted'[s].wrote
RedirectStep(s) == ~submitted[s].redirected /\ submitted'[s].redirected

\* decodeURIComponent, on the model's alphabet.
HexValue(d) == (CHOOSE k \in 1..16 : HexDigits[k] = d) - 1

CharOf(code) == CHOOSE c \in {" ", "%", "&", "=", "?"} : CharCode(c) = code

RECURSIVE decodeURIComponent(_)
decodeURIComponent(s) ==
    IF s = <<>> THEN <<>>
    ELSE IF Head(s) = "%"
         THEN <<CharOf(16 * HexValue(s[2]) + HexValue(s[3]))>>
              \o decodeURIComponent(SubSeq(s, 4, Len(s)))
         ELSE <<Head(s)>> \o decodeURIComponent(Tail(s))

\* The URL is the fixed one with ?id= and the URL-encoded identifier: only
\* unreserved characters and escapes, decoding back to the identifier.
IsRedirectTo(url, id) ==
    /\ url.base = RedirectBase
    /\ Head(url.query) = "?id="
    /\ \A k \in 2..Len(url.query) : url.query[k] \in Unreserved \cup {"%"} \cup Range(HexDigits)
    /\ decodeURIComponent(Tail(url.query)) = id

----------------------------------------------------------------------------
\* C1: every accepted submit is eventually written to storage and eventually
\* redirected to, also one made while an earlier submit's timers are pending.
\* Stated for a finite run: once the page is gone, nothing more can happen, so
\* by then every non-empty submit must have been written and redirected.
C1_EverySubmitCompletes ==
    ~loaded => \A s \in 1..Len(submitted) :
                   submitted[s].id # <<>> =>
                       submitted[s].wrote /\ submitted[s].redirected

\* What holds instead: while the page stays loaded every accepted submit is
\* written and redirected (with timers that run), and the first accepted
\* submit is always complete by the time the page is gone.
C1_CompletesWhileLoaded ==
    \A s \in 1..MaxSubmits :
        (Len(submitted) >= s /\ submitted[s].id # <<>>)
            ~> (~loaded \/ (Len(submitted) >= s /\ submitted[s].wrote
                                                  /\ submitted[s].redirected))

C1_FirstAcceptedCompletes ==
    ~loaded => \A s \in 1..Len(submitted) :
                   (submitted[s].id # <<>> /\ \A r \in 1..(s - 1) : submitted[r].id = <<>>) =>
                       submitted[s].wrote /\ submitted[s].redirected

----------------------------------------------------------------------------
\* C2, as stated: a submit with an empty identifier shows an error
\* notification and schedules no timer, writes nothing and redirects nowhere.
C2_EmptySubmitSchedulesNothing ==
    [][(SubmitStep /\ Last(submitted').id = <<>>) =>
           /\ ShowStep
           /\ Last(created').type = "error"
           /\ timers' = timers
           /\ localStorage' = localStorage
           /\ location' = location]_vars

\* C2, amended: a submit with an empty identifier shows an error notification;
\* the only timer it schedules is that notification's auto-dismiss timer, no
\* login timer; it writes nothing and redirects nowhere; and while every
\* submit so far was empty the storage key is unset and the location is the
\* landing page.
C2_EmptySubmit ==
    /\ [][(SubmitStep /\ Last(submitted').id = <<>>) =>
              /\ ShowStep
              /\ Last(created').type = "error"
              /\ attached' = {Len(created')}
              /\ Len(timers') = Len(timers) + 1
              /\ SubSeq(timers', 1, Len(timers)) = timers
              /\ Last(timers').kind = "autoDismiss"
              /\ Last(timers').n = Len(created')
              /\ localStorage' = localStorage
              /\ location' = location]_vars
    /\ []((\A s \in 1..Len(submitted) : submitted[s].id = <<>>) =>
              /\ Stored = <<>>
              /\ location = LandingPage
              /\ \A i \in 1..Len(timers) : timers[i].kind \in {"autoDismiss", "fadeOut"})

\* An empty submit was handled while nothing else had been submitted.
C2_Witness ==
    /\ Len(submitted) >= 1
    /\ \A s \in 1..Len(submitted) : submitted[s].id = <<>>
    /\ Len(created) = Len(submitted)
    /\ created[1].type = "error"

----------------------------------------------------------------------------
\* C5: at most one notification element is attached to the page, and right
\* after a showNotification call the attached one is the one that call created.
C5_OneNotification ==
    /\ [](Cardinality(attached) <= 1)
    /\ [][ShowStep => attached' = {Len(created')}]_vars

\* The second notification replaced the first, which was still on the page
\* with its auto-dismiss timer pending.
C5_Witness ==
    /\ Len(created) >= 2
    /\ attached = {2}
    /\ created[1].animation = "slideIn"
    /\ \E i \in 1..Len(timers) : timers[i].kind = "autoDismiss" /\ timers[i].n = 1

----------------------------------------------------------------------------
\* C7: for each accepted submit, the info notification is shown at submit
\* time; the first timer shows the success notification and writes storage in
\* one step and starts the second timer; the second timer, started only by the
\* first, redirects. No redirect with identifier X happens unless X was
\* written to storage earlier.
C7_LoginOrder ==
    /\ [][(SubmitStep /\ Last(submitted').id # <<>>) =>
              /\ ShowStep
              /\ Last(created').type = "info"
              /\ Last(created').message = "Processando login..."
              /\ attached' = {Len(created')}
              /\ localStorage' = localStorage
              /\ location' = location]_vars
    /\ [][\A s \in 1..Len(submitted) : WriteStep(s) =>
              /\ ShowStep
              /\ Last(created').type = "success"
              /\ attached' = {Len(created')}
              /\ Stored' = <<submitted[s].id>>
              /\ location' = location
              /\ Last(timers') = Timer("loginSecond", RedirectDelay, 0, s, submitted[s].id)]_vars
    /\ [][\A s \in 1..Len(submitted) : RedirectStep(s) =>
              /\ submitted[s].wrote
              /\ IsRedirectTo(location', submitted[s].id)
              /\ localStorage' = localStorage]_vars
    /\ [][location' # location => \E s \in 1..Len(submitted) : RedirectStep(s)]_vars
    /\ [](\A i \in 1..Len(timers) :
              /\ timers[i].kind = "loginSecond" => submitted[timers[i].s].wrote
              /\ timers[i].kind = "loginFirst" => ~submitted[timers[i].s].wrote)

\* A redirect has happened, to an identifier with escaped characters.
C7_Witness ==
    /\ \E s \in 1..Len(submitted) : submitted[s].redirected /\ submitted[s].id = <<"&", " ">>
    /\ location.query = <<"?id=", "%", "2", "6", "%", "2", "0">>

----------------------------------------------------------------------------
\* C8: the only storage key the script has written is cloud25f-user-id, and
\* its value is unset or a non-empty identifier an earlier submit carried.
C8_StorageContent ==
    /\ DOMAIN localStorage \subseteq {"cloud25f-user-id"}
    /\ \A k \in DOMAIN localStorage :
           /\ localStorage[k] # <<>>
           /\ \E s \in 1..Len(submitted) : submitted[s].id = localStorage[k]

\* The key holds the second of two identifiers, after an empty submit too.
C8_Witness ==
    /\ Stored = <<<<"&", " ">>>>
    /\ \E s \in 1..Len(submitted) : submitted[s].id = <<>>

----------------------------------------------------------------------------
\* C9: whenever a redirect happens, the identifier in the redirect URL is the
\* value held in storage at that moment, also when submits overlap.
C9_RedirectMatchesStorage ==
    [][\A s \in 1..Len(submitted) : RedirectStep(s) =>
           /\ Stored # <<>>
           /\ IsRedirectTo(location', Stored[1])]_vars

----------------------------------------------------------------------------
\* C3: two consecutive hamburger clicks return the menu to the state it had
\* before the first of them; in particular from closed back to closed.
C3_TwoHamburgerClicks ==
    Len(clicks) = 2 => Menu = clicks[1]

\* Two hamburger clicks in a row, the first on a closed menu.
C3_Witness ==
    /\ Len(clicks) = 2
    /\ clicks[1] = [nav |-> FALSE, ham |-> FALSE]
    /\ clicks[2] = [nav |-> TRUE, ham |-> TRUE]
    /\ ~navMenuActive /\ ~hamburgerActive

----------------------------------------------------------------------------
\* C6: once a scroll event has been handled, the scroll-to-top button has
\* class 'visible' exactly when scrollY is greater than 300.
C6_ButtonVisibility ==
    scrollToTopButton # Undefined => (scrollToTopButton.visible <=> scrollY > 300)

\* Scrolled back to exactly the threshold: the button exists and is hidden.
C6_Witness ==
    /\ scrollToTopButton # Undefined
    /\ scrollY = 300
    /\ ~scrollToTopButton.visible

----------------------------------------------------------------------------
\* C4: every notification shown is eventually off the page; its auto-dismiss
\* path removes it only through the follow-up timer, which exists only after
\* the 5-second timer has run; and a notification on the page always has one
\* of its own two timers pending.
MaxNotifications == 2 * MaxSubmits

OwnTimers(n, kind) ==
    {i \in 1..Len(timers) : timers[i].n = n /\ timers[i].kind = kind}

\* A step that takes n off the page and is neither a close click, a
\* replacement nor the unload: the notification's own timer removed it.
RemovedByTimer(n) ==
    /\ n \in attached /\ n \notin attached'
    /\ loaded' /\ ~ShowStep /\ timers' # timers

----------------------------------------------------------------------------
\* C10: the login timers are never cancelled: whatever the script handles next
\* (any submit, a close click, a replaced notification, a scroll, a menu
\* click, another timer), a pending login timer stays pending, or the step is
\* that timer running, and then it performs its storage write or its redirect.
LoginTimerKept(i) ==
    \E j \in 1..Len(timers') :
        /\ timers'[j].kind = timers[i].kind
        /\ timers'[j].s = timers[i].s
        /\ timers'[j].id = timers[i].id
        /\ timers'[j].rem <= timers[i].rem

LoginTimerRan(i) ==
    /\ timers[i].rem = 0
    /\ timers[i].kind = "loginFirst" =>
           /\ Stored' = <<timers[i].id>>
           /\ \E j \in 1..Len(timers') :
                  timers'[j].kind = "loginSecond" /\ timers'[j].s = timers[i].s
    /\ timers[i].kind = "loginSecond" => IsRedirectTo(location', timers[i].id)

C10_TimersNeverCancelled ==
    [][loaded' => \A i \in 1..Len(timers) :
           timers[i].kind \in {"loginFirst", "loginSecond"} =>
               LoginTimerKept(i) \/ LoginTimerRan(i)]_vars

\* A redirect is still pending after an empty submit, a closed notification,
\* a scroll and a menu click.
C10_Witness ==
    /\ \E i \in 1..Len(timers) : timers[i].kind = "loginSecond" /\ timers[i].s = 1
    /\ Len(submitted) = 2 /\ submitted[2].id = <<>>
    /\ attached = {}
    /\ navMenuActive
    /\ scrollY = 301

----------------------------------------------------------------------------
\* C11: the mobile menu can only be opened by a hamburger click. A click on a
\* nav link, and a click whose target is outside both the hamburger and the
\* nav menu (the notification's close button is such a target), leave the menu
\* closed whatever it was; a click inside the nav menu that is not on a link
\* leaves the menu as it was.
C11_OnlyHamburgerOpens ==
    [][/\ (~navMenuActive /\ navMenuActive') => Click("hamburger")
       /\ (Click("nav-link") \/ Click("outside")) =>
              (~navMenuActive' /\ ~hamburgerActive')
       /\ (\E n \in attached : CloseNotification(n)) =>
              (~navMenuActive' /\ ~hamburgerActive')
       /\ Click("nav-menu") =>
              (navMenuActive' = navMenuActive /\ hamburgerActive' = hamburgerActive)]_vars

\* The menu is open and the last click was not on the hamburger: it was a
\* click inside the open nav menu, which left it open.
C11_Witness ==
    /\ navMenuActive
    /\ hamburgerActive
    /\ clicks = <<>>

----------------------------------------------------------------------------
\* C15: in every reachable state the nav menu has class 'active' exactly when
\* the hamburger has it, and every step changes both class lists or neither.
C15_ClassesAgree ==
    /\ [](navMenuActive <=> hamburgerActive)
    /\ [][(navMenuActive' # navMenuActive) <=> (hamburgerActive' # hamburgerActive)]_vars

\* Both elements are 'active' after a third hamburger click in a row.
C15_Witness ==
    /\ navMenuActive
    /\ hamburgerActive
    /\ Len(clicks) = 2

----------------------------------------------------------------------------
\* C13: the scroll-to-top button is created lazily and at most once: before
\* the first scroll event there is no button and the reference is unset; after
\* any number of scroll events there is exactly one button element, with one
\* click listener, and the reference points to it; once set, the reference
\* never changes to another element and no further element is created.
C13_ButtonCreatedOnce ==
    /\ [](headerBackground = "" => (buttons = <<>> /\ scrollToTopButton = Undefined))
    /\ [](headerBackground # "" =>
              /\ Len(buttons) = 1
              /\ buttons[1].clickListeners = 1
              /\ scrollToTopButton # Undefined
              /\ scrollToTopButton.element = buttons[1].element)
    /\ [][scrollToTopButton # Undefined =>
              /\ scrollToTopButton'.element = scrollToTopButton.element
              /\ buttons' = buttons]_vars

\* Back at the top after at least two scroll events: still one button.
C13_Witness ==
    /\ scrollY = 0
    /\ headerBackground # ""
    /\ Len(buttons) = 1
    /\ scrollToTopButton.element = 1

----------------------------------------------------------------------------
\* C14: the timers of a notification never remove or alter another
\* notification, also when their own notification was replaced or closed
\* before they ran; and while the page is loaded a notification leaves it only
\* through a later showNotification call, its own close button, or its own
\* follow-up timer. So the timer of 'Processando login...' leaves the success
\* notification that replaced it on the page, unaltered.
C14_DeadTimersHarmless ==
    /\ [][\A i \in 1..Len(timers) : (AutoDismissTimer(i) \/ FadeOutTimer(i)) =>
              \A m \in 1..Len(created) : m # timers[i].n =>
                  /\ (m \in attached') <=> (m \in attached)
                  /\ created'[m] = created[m]]_vars
    /\ [][loaded' => \A m \in attached : m \notin attached' =>
              \/ ShowStep
              \/ CloseNotification(m)
              \/ \E i \in 1..Len(timers) : timers[i].n = m /\ FadeOutTimer(i)]_vars

\* The 5-second timer of the info notification has run after the success
\* notification replaced it: the success notification is on the page, as shown.
C14_Witness ==
    /\ loaded
    /\ Len(created) >= 2
    /\ created[1].type = "info" /\ created[1].animation = "slideIn"
    /\ created[2].type = "success" /\ created[2].animation = "slideIn"
    /\ attached = {2}
    /\ \A i \in 1..Len(timers) : timers[i].n # 1
    /\ \E i \in 1..Len(timers) : timers[i].n = 2 /\ timers[i].kind = "autoDismiss"

----------------------------------------------------------------------------
\* C16: for the function debounce returns: at most one timer is pending; each
\* call cancels the pending timer and starts a new one for the full wait, with
\* its own arguments; the wrapped function runs only when a timer expires with
\* no call since that timer was started, with that call's arguments; so every
\* call is either still pending, cancelled by the next call of its burst, or
\* invoked exactly once, and the last call of a burst is eventually invoked.
Invoked(k) == Cardinality({j \in 1..Len(invocations) : invocations[j] = k})

PendingCall(k) == Cardinality({t \in debounceTimers : t.args = k})

CancelledCall(k) == IF k \in cancelled THEN 1 ELSE 0

C16_Debounce ==
    /\ [](Cardinality(debounceTimers) <= 1)
    /\ [][calls' = calls + 1 =>
              /\ \E t \in debounceTimers' :
                     debounceTimers' = {t} /\ t.rem = DebounceWait /\ t.args = calls'
              /\ \A t \in debounceTimers : t.args \in cancelled'
              /\ invocations' = invocations]_vars
    /\ [][invocations' # invocations =>
              /\ invocations' = Append(invocations, calls)
              /\ \E t \in debounceTimers : t.args = calls /\ t.rem = 0
              /\ calls' = calls
              /\ debounceTimers' = {}
              /\ cancelled' = cancelled]_vars
    /\ [](\A k \in 1..calls : PendingCall(k) + CancelledCall(k) + Invoked(k) = 1)
    /\ [](cancelled \subseteq 1..(calls - 1))
    /\ \A k \in 1..MaxCalls : (calls = k) ~> (calls > k \/ Invoked(k) = 1)

\* Calls 1 and 2 came as one burst and call 3 later: the wrapped function has
\* run twice, with the arguments of call 2 and then of call 3.
C16_Witness ==
    /\ calls = 3
    /\ cancelled = {1}
    /\ invocations = <<2, 3>>
    /\ debounceTimers = {}

----------------------------------------------------------------------------
\* Vocabulary of C12. The commands that exited non-zero, among `lines`, as
\* positions in the history; and the files of the commands that succeeded.
AllLines == 1..Len(Commands)

SimpleLines == {l \in AllLines : Commands[l].kind # "test"}

Failed(lines) == {k \in 1..Len(ran) : ran[k].line \in lines /\ ran[k].status # 0}

Succeeded(l) == \E k \in 1..Len(ran) : ran[k].line = l /\ ran[k].status = 0

\* In the order of the text, each command at most once; the shell stops at the
\* first of `lines` that exits non-zero, with its status; the service is
\* started only after every command from mkdir to systemctl enable succeeded
\* and none of `lines` failed; what a successful command created is in place.
FailFast(lines) ==
    /\ \A j, k \in 1..Len(ran) : j < k => ran[j].line < ran[k].line
    /\ \A k \in Failed(lines) : k = Len(ran) /\ exitStatus = ran[k].status
    /\ serviceStarted =>
           /\ Failed(lines) = {}
           /\ \A l \in AfterIf..StartLine : Succeeded(l)
    /\ \A l \in AllLines : Succeeded(l) => Commands[l].creates \subseteq files

\* Once the shell has exited nothing more runs, and no step removes a file.
NothingAfterExit ==
    /\ [][exitStatus # Running =>
              (ran' = ran /\ files' = files /\ serviceStarted' = serviceStarted)]_vars
    /\ [][files \subseteq files']_vars

\* C12, as stated: the script runs its steps in order and stops at the first
\* command that exits non-zero: no later step runs, the service is started
\* only if every earlier step succeeded, nothing is retried, and files written
\* before the failure are left in place.
C12_StopsAtAnyNonZeroExit ==
    /\ [](FailFast(AllLines))
    /\ NothingAfterExit

\* C12, amended: the same for every command except the two tests of the
\* if/elif, whose exit status only selects the package manager: the yum
\* commands run exactly after a yum test that exited 0, the apt-get commands
\* exactly after a failed yum test and an apt-get test that exited 0, and with
\* both tests failed the script goes on to mkdir without installing packages.
C12_FailFastExceptTests ==
    /\ [](FailFast(SimpleLines))
    /\ NothingAfterExit
    /\ [](Len(ran) >= 1 => ran[1].line = YumTest)
    /\ [](\A k \in 2..Len(ran) :
              ran[k].line =
                  IF ran[k - 1].line = YumTest
                  THEN (IF ran[k - 1].status = 0 THEN YumTest + 1 ELSE AptTest)
                  ELSE IF ran[k - 1].line = AptTest
                  THEN (IF ran[k - 1].status = 0 THEN AptTest + 1 ELSE AfterIf)
                  ELSE IF ran[k - 1].line = YumLast THEN AfterIf
                  ELSE ran[k - 1].line + 1)

\* On a host without yum the apt-get branch ran, the files were written, and
\* the script stopped at python3 -m venv with that command's status.
C12_Witness ==
    /\ Len(ran) >= 2
    /\ ran[1] = [line |-> YumTest, status |-> 1]
    /\ ran[2] = [line |-> AptTest, status |-> 0]
    /\ Commands[Last(ran).line].cmd = "python3 -m venv $VENV_DIR"
    /\ exitStatus = 127
    /\ {"/opt/cloud25f/app.py", "/opt/cloud25f/requirements.txt"} \subseteq files
    /\ ~serviceStarted

====
